---- MODULE Spec2Model ----
(***************************************************************************)
(* Leave-management backend: the leave-request lifecycle (apply, approve,  *)
(* reject, cancel, list pending, view) behind the authentication and role  *)
(* middleware, and the user directory (sign-in, profile updates, the       *)
(* admin's role and status routes).                                        *)
(* Every lifecycle handler is an async function: it is modelled            *)
(* as the sequence of its atomic segments, cut at the awaits that touch    *)
(* the database, so that handlers of concurrent HTTP requests interleave   *)
(* exactly where Node.js lets them interleave.  The read routes and the    *)
(* user-directory handlers run one request at a time in their              *)
(* specifications and are single steps.  The client's auth provider        *)
(* (checkAuthStatus, login, logout) is modelled beside the backend: each   *)
(* of its async functions is cut at its await, and its requests are        *)
(* answered by the backend's own handlers.                                 *)
(*                                                                         *)
(*   idle --Authenticate--> authed --<Op>Load/Check--> loaded              *)
(*        --<Op>Save/Delete--> done --Return--> idle                       *)
(*                                                                         *)
(* Strings are represented by their lengths: an input string is a record   *)
(* [def, pad, core] (present?, surrounding white space, trimmed length).   *)
(* Dates are integer instants on the same axis as the clock `now`.         *)
(***************************************************************************)
EXTENDS Integers, FiniteSets, Sequences, TLC

\* ---------------------------------------------------------------- bounds
MaxLeaves == 2      \* leave requests ever created (concurrent spec)
MaxSeqLeaves == 1   \* leave requests ever created (sequential spec)
MaxTime == 1        \* the clock runs over 0..MaxTime
MaxCalls == 2       \* HTTP requests in flight at once (concurrent spec)
MaxDay == 2         \* stored dates fall on the calendar days 0..MaxDay

\* ------------------------------------------------------ program constants
MinRemarks == 5
MaxRemarks == 200
MaxUrgentReason == 200
InstantsPerDay == 3 \* the 1000 * 60 * 60 * 24 ms of a day, in instants of 8 hours

Undefined == -1     \* JS undefined for a string/date/number slot
BadId == 0          \* an :id that is not a well-formed ObjectId
NoUser == "none"    \* no user: missing/invalid token, or unset reference

\* ------------------------------------------------------------- directory
UserIds == {"s1", "s2", "c1", "w1", "a1", "x1"}

Roles == {"student", "caretaker", "warden", "admin"}

InitialRole(u) ==
  CASE u \in {"s1", "s2"} -> "student"
    [] u \in {"c1", "x1"} -> "caretaker"
    [] u = "w1" -> "warden"
    [] OTHER -> "admin"

\* the institution's mail host; a string is the sequence of its pieces
Institution == "nitgoa.ac.in"

Email(local) == <<local, "@", Institution>>

\* student-only fields of a seeded student
SeedStudentId == 7
SeedYear == 2

InitialUsers ==
  [u \in UserIds |->
     [role |-> InitialRole(u), isActive |-> (u # "x1"), email |-> Email(u),
      studentId |-> IF InitialRole(u) = "student" THEN SeedStudentId ELSE Undefined,
      year |-> IF InitialRole(u) = "student" THEN SeedYear ELSE Undefined]]

LeaveIds == 1..MaxLeaves
Dates == 0..MaxTime

\* a session token as jwt.sign makes it: the user it names, the role it carries
Token(userId, role) == [userId |-> userId, role |-> role]

\* every user of the directory signed in once, under the role they still hold
InitialTokens == {Token(u, InitialRole(u)) : u \in UserIds}

VARIABLES tokens, users, leaves, nextId, now, calls, client

vars == <<tokens, users, leaves, nextId, now, calls, client>>

\* ---------------------------------------------------------------- strings
Str(pad, core) == [def |-> TRUE, pad |-> pad, core |-> core]
NoStr == [def |-> FALSE, pad |-> 0, core |-> 0]

\* express-validator .trim() / mongoose trim: drops the surrounding white space
Trim(s) == [s EXCEPT !.pad = 0]

StrLen(s) == s.pad + s.core

\* express-validator isLength({min, max}) on the (already sanitised) value;
\* an absent field is validated as the empty string
isLength(s, min, max) == StrLen(s) >= min /\ StrLen(s) <= max

\* the JS value a handler sees after the sanitiser ran: undefined or the text
Value(s) == IF s.def THEN StrLen(s) ELSE Undefined

\* JS truthiness of a string-or-undefined value: '' and undefined are falsy
Truthy(v) == v # Undefined /\ v # 0

\* ------------------------------------------------------------- middleware
\* authenticateToken: the status it answers with, or 0 when it calls next()
\* mutant: the user's isActive flag is not looked at
authenticateToken_AnyUser(tok) ==
  IF tok = NoUser THEN 401
  ELSE IF tok \notin DOMAIN users THEN 401
  ELSE 0

authenticateToken(tok) ==
  IF tok = NoUser THEN 401
  ELSE IF tok \notin DOMAIN users THEN 401
  ELSE IF ~users[tok].isActive THEN 401
  ELSE 0

requireRole(roles, role) == role \in roles

\* mutant: the student-only routes also let admins through
requireStudent_AdminToo(role) == requireRole({"student", "admin"}, role)

requireStudent(role) == requireRole({"student"}, role)

requireAdmin(role) == requireRole({"admin"}, role)

\* mutant: approver capability for warden and caretaker exclusively
canApproveLeaves_NoAdmin(role) == role \in {"caretaker", "warden"}

canApproveLeaves(role) == role \in {"caretaker", "warden", "admin"}

canApproveLeave(role) == canApproveLeaves(role)

\* requireOwnershipOrAdmin(resourceUserIdField): the id it compares with the
\* caller's, req.params[field] || req.body[field] ("undefined" when neither has it)
resourceUserId(params, body, field) ==
  IF field \in DOMAIN params THEN params[field]
  ELSE IF field \in DOMAIN body THEN body[field]
  ELSE "undefined"

\* TRUE when it calls next()
requireOwnershipOrAdmin(role, userId, params, body, field) ==
  role = "admin" \/ userId = resourceUserId(params, body, field)

Ops == {"apply", "pending", "approve", "reject", "cancel"}

\* GET /:id and GET /my-requests of the leave router
ReadOps == {"view", "mine"}

\* PUT /profile of the auth and of the user router, POST /refresh, and the
\* admin router's PUT /users/:id/role and PUT /users/:id/status
UserOps == {"authProfile", "userProfile", "refresh", "setRole", "setStatus"}

\* the role middleware mounted on each route
RouteAllows(op, role) ==
  CASE op \in {"apply", "cancel", "mine"} -> requireStudent(role)
    [] op \in {"pending", "approve", "reject"} -> canApproveLeave(role)
    [] op \in {"setRole", "setStatus"} -> requireAdmin(role)
    [] OTHER -> TRUE

\* ------------------------------------------------------------------ calls
IdleCall ==
  [pc |-> "idle", op |-> "none", actor |-> NoUser, role |-> "none",
   id |-> BadId, remarks |-> Undefined, fromDate |-> Undefined,
   toDate |-> Undefined, isUrgent |-> FALSE, urgentReason |-> Undefined,
   code |-> 0, err |-> "none", list |-> {},
   tokRole |-> "none", docs |-> <<>>, errs |-> {},
   target |-> NoUser, reqRole |-> "none", reqActive |-> "undefined",
   email |-> <<>>, token |-> Token(NoUser, "none"),
   student |-> "undefined", filter |-> "undefined",
   days |-> <<>>, stats |-> <<>>]

\* res.status(code).json(...): err is the kind of answer, errs the problems the
\* body names (one error message, or the entries of errors.array())
Respond(call, code, err) ==
  [call EXCEPT !.pc = "done", !.code = code, !.err = err,
               !.errs = IF code < 400 THEN {} ELSE {err}]

\* ------------------------------------------------------------ LeaveRequest
\* new LeaveRequest({...}) with the schema defaults
NewLeaveRequest(studentId, fromDate, toDate, isUrgent, urgentReason, createdAt) ==
  [student |-> studentId, fromDate |-> fromDate, toDate |-> toDate,
   status |-> "pending", remarks |-> Undefined,
   approvedBy |-> NoUser, approvedAt |-> Undefined,
   isUrgent |-> isUrgent, urgentReason |-> urgentReason,
   createdAt |-> createdAt]

\* schema validators of fromDate, toDate and urgentReason, run when a new
\* document is saved (a validator is not run on an undefined value)
validateFromDate(v, t) == v >= t

validateToDate(v, fromDate) == v >= fromDate

validateUrgentReason(v, isUrgent) == v = Undefined \/ (IF isUrgent THEN Truthy(v) ELSE TRUE)

\* pre('save') date hook: TRUE when it calls next() without an error
preSaveDates(fromDate, toDate, t) ==
  IF fromDate # Undefined /\ toDate # Undefined
  THEN ~(fromDate < t) /\ ~(toDate < fromDate)
  ELSE TRUE

\* pre('save') urgent hook
preSaveUrgent(isUrgent, urgentReason) == ~(isUrgent /\ ~Truthy(urgentReason))

\* methods.approve / methods.reject: the paths they assign
approve(doc, approvedBy, remarks, t) ==
  [doc EXCEPT !.status = "approved", !.approvedBy = approvedBy, !.approvedAt = t,
              !.remarks = IF remarks = Undefined THEN 0 ELSE remarks]

reject(doc, approvedBy, remarks, t) ==
  [doc EXCEPT !.status = "rejected", !.approvedBy = approvedBy, !.approvedAt = t,
              !.remarks = IF remarks = Undefined THEN 0 ELSE remarks]

\* Math.abs and Math.ceil(a / b) on integers, b > 0
Abs(a) == IF a < 0 THEN -a ELSE a

CeilDiv(a, b) == IF a >= 0 THEN (a + b - 1) \div b ELSE -((-a) \div b)

\* virtual('duration')
duration(doc) ==
  IF doc.fromDate # Undefined /\ doc.toDate # Undefined
  THEN CeilDiv(Abs(doc.toDate - doc.fromDate), InstantsPerDay) + 1
  ELSE 0

\* statics.getPendingRequests
getPendingRequests == {id \in DOMAIN leaves : leaves[id].status = "pending"}

\* the overlap query of /apply
\* mutant: the interval comparison is strict, touching intervals pass
overlappingLeaves_Strict(studentId, fromDateObj, toDateObj) ==
  {id \in DOMAIN leaves :
     /\ leaves[id].student = studentId
     /\ leaves[id].status \in {"pending", "approved"}
     /\ leaves[id].fromDate < toDateObj
     /\ leaves[id].toDate > fromDateObj}

overlappingLeaves(studentId, fromDateObj, toDateObj) ==
  {id \in DOMAIN leaves :
     /\ leaves[id].student = studentId
     /\ leaves[id].status \in {"pending", "approved"}
     /\ leaves[id].fromDate <= toDateObj
     /\ leaves[id].toDate >= fromDateObj}

\* --------------------------------------------------- conditions of the routes
\* /apply: if (fromDateObj < now), if (toDateObj < fromDateObj)
\* mutant: the past-date check is off by one instant
fromDateInPast_OffByOne(fromDateObj, t) == fromDateObj < t - 1

fromDateInPast(fromDateObj, t) == fromDateObj < t

toDateBeforeFrom(fromDateObj, toDateObj) == toDateObj < fromDateObj

\* approve, reject, cancel: if (leaveRequest.status !== 'pending')
\* mutant: only an approved request counts as decided
notPending_OnlyApproved(doc) == doc.status = "approved"

notPending(doc) == doc.status # "pending"

\* cancel: if (leaveRequest.student.toString() !== studentId.toString())
\* mutant: the two ObjectIds are compared by reference, never equal
notOwner_ByReference(doc, studentId) == TRUE

notOwner(doc, studentId) == doc.student # studentId

\* body('remarks').optional().trim().isLength({ max: 200 }) of /:id/approve
approveRemarksValid(rem) == ~rem.def \/ isLength(Trim(rem), 0, MaxRemarks)

\* body('remarks').trim().isLength({ min: 5, max: 200 }) of /:id/reject
rejectRemarksValid(rem) == isLength(Trim(rem), MinRemarks, MaxRemarks)

\* ------------------------------------------------------------------ inputs
Tokens == UserIds \cup {NoUser}
ReqIds == LeaveIds \cup {BadId}
isMongoId(id) == id # BadId

RemarksInputs == {NoStr, Str(1, 0), Str(0, MinRemarks - 1), Str(1, MinRemarks), Str(0, MaxRemarks + 1)}
ReasonInputs == {NoStr, Str(1, 0), Str(0, 7), Str(0, MaxUrgentReason + 1)}
IsUrgentInputs == {"undefined", "true", "false"}
FieldRules == {"reason", "contact"}

\* JS truthiness and mongoose Boolean cast of the isUrgent body field
TruthyFlag(v) == v = "true"
CastBoolean(v) == v = "true"

ApplyBodies ==
  [fromDate : Dates, toDate : Dates, fieldErrors : SUBSET FieldRules,
   isUrgent : IsUrgentInputs, urgentReason : ReasonInputs,
   status : {"undefined", "approved"}, student : {"undefined", "s2"}]

\* ------------------------------------------------------------------ client
\* localStorage without the key 'lms_token'
NoToken == Token(NoUser, "none")

\* what the identity provider's button hands to handleCredentialResponse: a
\* credential, written as what the provider would answer when asked to verify it
Credentials == [kind : {"valid", "invalid"}, email : {Email("s1"), Email("x1")}]

NoCredential == [kind |-> "absent", email |-> <<>>]

\* AuthProvider on mount: useState(null), useState(true), the effect not yet
\* run; token is the value of 'lms_token' in localStorage, which outlives the page
AuthProvider(token) ==
  [token |-> token, user |-> NoUser, isLoading |-> TRUE, route |-> "here",
   check |-> [pc |-> "mounted", token |-> NoToken],
   login |-> [pc |-> "idle", body |-> <<>>],
   result |-> "none", last |-> "none"]

\* ------------------------------------------------------------------- state
Init ==
  /\ tokens = InitialTokens
  /\ users = InitialUsers
  /\ leaves = <<>>
  /\ nextId = 1
  /\ now = 0
  /\ calls = [c \in 1..MaxCalls |-> IdleCall]
  /\ client = AuthProvider(NoToken)

\* -------------------------------------------------------------------- time
Tick ==
  /\ now < MaxTime
  /\ now' = now + 1
  /\ UNCHANGED <<tokens, users, leaves, nextId, calls, client>>

\* ------------------------------------------------------------ authenticate
\* the tokens a client can present for a user: those issued to that user; a
\* request without a valid token carries none
Presented(tok) ==
  IF tok = NoUser THEN {Token(NoUser, "none")} ELSE {t \in tokens : t.userId = tok}

\* A request arrives on slot c: authenticateToken, then the route's role
\* middleware, which runs synchronously after it.
Authenticate(c, In) ==
  /\ calls[c].pc = "idle"
  /\ \E op \in In.ops, tok \in In.tokens : \E t \in Presented(tok) :
       LET call == [IdleCall EXCEPT !.op = op, !.actor = tok, !.tokRole = t.role] IN
          IF authenticateToken(tok) # 0
          THEN calls' = [calls EXCEPT ![c] = Respond(call, 401, "Unauthenticated")]
          ELSE IF ~RouteAllows(op, users[tok].role)
          THEN calls' = [calls EXCEPT ![c] =
                 Respond([call EXCEPT !.role = users[tok].role], 403, "Forbidden")]
          ELSE calls' = [calls EXCEPT ![c] =
                 [call EXCEPT !.pc = "authed", !.role = users[tok].role]]
  /\ UNCHANGED <<tokens, users, leaves, nextId, now, client>>

\* the client receives the response; the slot is free again
Return(c) ==
  /\ calls[c].pc = "done"
  /\ calls' = [calls EXCEPT ![c] = IdleCall]
  /\ UNCHANGED <<tokens, users, leaves, nextId, now, client>>

\* ------------------------------------------------------------------- apply
\* POST /apply up to the result of the overlap query
ApplyCheck(c, In) ==
  /\ calls[c].pc = "authed" /\ calls[c].op = "apply"
  /\ \E body \in In.bodies :
       LET call == [calls[c] EXCEPT !.fromDate = body.fromDate, !.toDate = body.toDate]
           studentId == call.actor
           urgentReason == Value(Trim(body.urgentReason))
           errors == body.fieldErrors \cup
                     (IF isLength(Trim(body.urgentReason), 0, MaxUrgentReason)
                      THEN {} ELSE {"urgentReason"})
       IN
       IF errors # {}
       THEN calls' = [calls EXCEPT ![c] =
              [Respond(call, 400, "Validation") EXCEPT !.errs = errors]]
       ELSE IF fromDateInPast(body.fromDate, now)
       THEN calls' = [calls EXCEPT ![c] = Respond(call, 400, "PastDate")]
       ELSE IF toDateBeforeFrom(body.fromDate, body.toDate)
       THEN calls' = [calls EXCEPT ![c] = Respond(call, 400, "DateOrder")]
       ELSE IF overlappingLeaves(studentId, body.fromDate, body.toDate) # {}
       THEN calls' = [calls EXCEPT ![c] = Respond(call, 400, "Overlap")]
       ELSE calls' = [calls EXCEPT ![c] =
              [call EXCEPT !.pc = "loaded",
                           !.isUrgent = CastBoolean(body.isUrgent),
                           !.urgentReason = IF TruthyFlag(body.isUrgent)
                                            THEN urgentReason ELSE Undefined]]
  /\ UNCHANGED <<tokens, users, leaves, nextId, now, client>>

\* new LeaveRequest(...).save(): validators and pre-save hooks, then the insert;
\* the store takes In.maxLeaves documents over a run
ApplySave(c, In) ==
  /\ calls[c].pc = "loaded" /\ calls[c].op = "apply"
  /\ nextId <= In.maxLeaves
  /\ LET call == calls[c]
         doc == NewLeaveRequest(call.actor, call.fromDate, call.toDate,
                                call.isUrgent, call.urgentReason, now)
     IN
     IF /\ validateFromDate(doc.fromDate, now)
        /\ validateToDate(doc.toDate, doc.fromDate)
        /\ validateUrgentReason(doc.urgentReason, doc.isUrgent)
        /\ preSaveDates(doc.fromDate, doc.toDate, now)
        /\ preSaveUrgent(doc.isUrgent, doc.urgentReason)
     THEN /\ leaves' = (nextId :> doc) @@ leaves
          /\ nextId' = nextId + 1
          /\ calls' = [calls EXCEPT ![c] = Respond([call EXCEPT !.id = nextId], 201, "OK")]
     ELSE /\ calls' = [calls EXCEPT ![c] = Respond(call, 500, "Internal")]
          /\ UNCHANGED <<leaves, nextId>>
  /\ UNCHANGED <<tokens, users, now, client>>

\* ----------------------------------------------------------------- pending
GetPending(c) ==
  /\ calls[c].pc = "authed" /\ calls[c].op = "pending"
  /\ calls' = [calls EXCEPT ![c] =
       [Respond(calls[c], 200, "OK") EXCEPT !.list = getPendingRequests]]
  /\ UNCHANGED <<tokens, users, leaves, nextId, now, client>>

\* ---------------------------------------------------------- approve/reject
\* the handler from validationResult to the status check on the loaded document
DecideLoad(c, In, op) ==
  /\ calls[c].pc = "authed" /\ calls[c].op = op
  /\ \E id \in In.ids, rem \in In.remarks :
       LET call == [calls[c] EXCEPT !.id = id, !.remarks = Value(Trim(rem))]
           valid == IF op = "approve" THEN approveRemarksValid(rem)
                                      ELSE rejectRemarksValid(rem)
       IN
       IF ~isMongoId(id) \/ ~valid
       THEN calls' = [calls EXCEPT ![c] = Respond(call, 400, "Validation")]
       ELSE IF id \notin DOMAIN leaves
       THEN calls' = [calls EXCEPT ![c] = Respond(call, 404, "NotFound")]
       ELSE IF notPending(leaves[id])
       THEN calls' = [calls EXCEPT ![c] = Respond(call, 400, "NotPending")]
       ELSE calls' = [calls EXCEPT ![c] =
              [call EXCEPT !.pc = "loaded",
                           !.fromDate = leaves[id].fromDate,
                           !.toDate = leaves[id].toDate,
                           !.isUrgent = leaves[id].isUrgent,
                           !.urgentReason = leaves[id].urgentReason]]
  /\ UNCHANGED <<tokens, users, leaves, nextId, now, client>>

ApproveLoad(c, In) == DecideLoad(c, In, "approve")

RejectLoad(c, In) == DecideLoad(c, In, "reject")

\* leaveRequest.approve()/reject(): assign, run the save hooks on the loaded
\* copy (the schema validators of the unmodified dates ask nothing the date hook
\* does not), then update the modified paths of the stored document by _id;
\* save() of a document that is no longer stored throws DocumentNotFoundError
DecideSave(c, op) ==
  /\ calls[c].pc = "loaded" /\ calls[c].op = op
  /\ LET call == calls[c] IN
     IF /\ preSaveDates(call.fromDate, call.toDate, now)
        /\ preSaveUrgent(call.isUrgent, call.urgentReason)
        /\ call.id \in DOMAIN leaves
     THEN /\ leaves' = [leaves EXCEPT ![call.id] =
                 IF op = "approve"
                 THEN approve(@, call.actor, call.remarks, now)
                 ELSE reject(@, call.actor, call.remarks, now)]
          /\ calls' = [calls EXCEPT ![c] = Respond(call, 200, "OK")]
     ELSE /\ calls' = [calls EXCEPT ![c] = Respond(call, 500, "Internal")]
          /\ UNCHANGED leaves
  /\ UNCHANGED <<tokens, users, nextId, now, client>>

ApproveSave(c) == DecideSave(c, "approve")

RejectSave(c) == DecideSave(c, "reject")

\* ------------------------------------------------------------------ cancel
CancelLoad(c, In) ==
  /\ calls[c].pc = "authed" /\ calls[c].op = "cancel"
  /\ \E id \in In.ids :
       LET call == [calls[c] EXCEPT !.id = id] IN
       IF ~isMongoId(id)
       THEN calls' = [calls EXCEPT ![c] = Respond(call, 500, "Internal")]
       ELSE IF id \notin DOMAIN leaves
       THEN calls' = [calls EXCEPT ![c] = Respond(call, 404, "NotFound")]
       ELSE IF notOwner(leaves[id], call.actor)
       THEN calls' = [calls EXCEPT ![c] = Respond(call, 403, "Forbidden")]
       ELSE IF notPending(leaves[id])
       THEN calls' = [calls EXCEPT ![c] = Respond(call, 400, "NotPending")]
       ELSE calls' = [calls EXCEPT ![c] = [call EXCEPT !.pc = "loaded"]]
  /\ UNCHANGED <<tokens, users, leaves, nextId, now, client>>

\* LeaveRequest.findByIdAndDelete(id)
CancelDelete(c) ==
  /\ calls[c].pc = "loaded" /\ calls[c].op = "cancel"
  /\ leaves' = [id \in DOMAIN leaves \ {calls[c].id} |-> leaves[id]]
  /\ calls' = [calls EXCEPT ![c] = Respond(calls[c], 200, "OK")]
  /\ UNCHANGED <<tokens, users, nextId, now, client>>

\* -------------------------------------------------------------------- read
\* statics.getStudentRequests
getStudentRequests(studentId) == {id \in DOMAIN leaves : leaves[id].student = studentId}

\* GET /:id: the condition under which it answers 'Access denied'
\* mutant: the comparison with the owner is dropped, any student may view
viewDenied_AnyStudent(role, doc, userId) ==
  role # "admin" /\ ~canApproveLeaves(role) /\ role # "student"

viewDenied(role, doc, userId) ==
  role # "admin" /\ ~canApproveLeaves(role) /\ doc.student # userId

\* GET /:id; the handler never looks at validationResult, so an :id that is
\* not an ObjectId makes findById throw a CastError
ViewLeave(c, In) ==
  /\ calls[c].pc = "authed" /\ calls[c].op = "view"
  /\ \E id \in In.ids :
       LET call == [calls[c] EXCEPT !.id = id] IN
       IF ~isMongoId(id)
       THEN calls' = [calls EXCEPT ![c] = Respond(call, 500, "Internal")]
       ELSE IF id \notin DOMAIN leaves
       THEN calls' = [calls EXCEPT ![c] = Respond(call, 404, "NotFound")]
       ELSE IF viewDenied(call.role, leaves[id], call.actor)
       THEN calls' = [calls EXCEPT ![c] = Respond(call, 403, "Forbidden")]
       ELSE calls' = [calls EXCEPT ![c] =
              [Respond(call, 200, "OK") EXCEPT !.docs = (id :> leaves[id]),
                                               !.days = (id :> duration(leaves[id]))]]
  /\ UNCHANGED <<tokens, users, leaves, nextId, now, client>>

\* GET /my-requests
GetMyRequests(c) ==
  /\ calls[c].pc = "authed" /\ calls[c].op = "mine"
  /\ calls' = [calls EXCEPT ![c] =
       [Respond(calls[c], 200, "OK") EXCEPT
          !.docs = [id \in getStudentRequests(calls[c].actor) |-> leaves[id]],
          !.days = [id \in getStudentRequests(calls[c].actor) |-> duration(leaves[id])]]]
  /\ UNCHANGED <<tokens, users, leaves, nextId, now, client>>

\* GET /stats of the user router: approvedLeaves.forEach(leave => totalDays += ...)
RECURSIVE totalDays(_)
totalDays(ids) ==
  IF ids = {} THEN 0
  ELSE LET id == CHOOSE i \in ids : TRUE IN
       CeilDiv(leaves[id].toDate - leaves[id].fromDate, InstantsPerDay) + 1
         + totalDays(ids \ {id})

\* the counts and totals of the answer, by the branch the caller's role takes
GetStats(c) ==
  /\ calls[c].pc = "authed" /\ calls[c].op = "stats"
  /\ LET u == calls[c].actor
         mine == {id \in DOMAIN leaves : leaves[id].student = u}
         approved == {id \in mine : leaves[id].status = "approved"}
         byMe == {id \in DOMAIN leaves : leaves[id].approvedBy = u}
         stats == IF calls[c].role = "student"
                  THEN [totalRequests |-> Cardinality(mine),
                        approvedRequests |-> Cardinality(approved),
                        totalDays |-> totalDays(approved)]
                  ELSE IF canApproveLeaves(calls[c].role)
                  THEN [totalApproved |->
                          Cardinality({id \in byMe : leaves[id].status = "approved"}),
                        totalRejected |->
                          Cardinality({id \in byMe : leaves[id].status = "rejected"}),
                        pendingToReview |-> Cardinality(getPendingRequests)]
                  ELSE <<>>
     IN calls' = [calls EXCEPT ![c] = [Respond(calls[c], 200, "OK") EXCEPT !.stats = stats]]
  /\ UNCHANGED <<tokens, users, leaves, nextId, now, client>>

\* -------------------------------------------------------------------- User
\* String.prototype.endsWith on sequences of pieces
endsWith(str, suffix) ==
  /\ Len(str) >= Len(suffix)
  /\ SubSeq(str, Len(str) - Len(suffix) + 1, Len(str)) = suffix

\* the schema's lowercase setter of email
lowercase(str) == [i \in DOMAIN str |-> IF str[i] = "NITGOA.AC.IN" THEN Institution ELSE str[i]]

\* the schema's match of email: one run of allowed characters, '@', the host
matchEmail(str) ==
  Len(str) = 3 /\ str[1] \notin {"@", ""} /\ str[2] = "@" /\ str[3] = Institution

\* validators of studentId and year (not run on an undefined value)
validateStudentId(v, role) == v = Undefined \/ (IF role = "student" THEN Truthy(v) ELSE TRUE)

validateYear(v, role) ==
  v = Undefined \/ (v >= 1 /\ v <= 4 /\ (IF role = "student" THEN v # 0 ELSE TRUE))

\* pre('save') hooks of the user schema: TRUE when they call next() without error
preSaveEmail(email) == ~(email # <<>> /\ ~endsWith(email, <<"@", Institution>>))

preSaveStudent(role, studentId, year) ==
  IF role = "student"
  THEN Truthy(studentId) /\ ~(year = Undefined \/ year = 0 \/ year < 1 \/ year > 4)
  ELSE TRUE

\* user.save(): validators of the modified paths, then the hooks
UserSaveOk(doc, modified) ==
  /\ ("email" \in modified => matchEmail(doc.email))
  /\ ("studentId" \in modified => validateStudentId(doc.studentId, doc.role))
  /\ ("year" \in modified => validateYear(doc.year, doc.role))
  /\ preSaveEmail(doc.email)
  /\ preSaveStudent(doc.role, doc.studentId, doc.year)

\* new User({ email, name, googleId, profilePicture, role: 'student' })
NewUser(email) ==
  [role |-> "student", isActive |-> TRUE, email |-> lowercase(email),
   studentId |-> Undefined, year |-> Undefined]

\* ----------------------------------------------------------------- sign-in
\* POST /google: if (!email.endsWith('@nitgoa.ac.in'))
\* mutant: the suffix is compared without its '@'
emailAllowed_HostOnly(email) == endsWith(email, <<Institution>>)

emailAllowed(email) == endsWith(email, <<"@", Institution>>)

\* what the identity provider answers for the idToken of the body
IdTokens == {"absent", "invalid", "expired", "valid"}

EmailInputs ==
  {Email("c1"), Email("s1"), Email("n1"),
   <<"n1", "@", "gmail.com">>, <<"c1", "@", "gmail.com">>,
   <<"n1", "@", "NITGOA.AC.IN">>,
   <<"n1", "@", "evil-", Institution>>,
   <<"n1", "@", Institution, ".evil.com">>}

\* POST /google, the whole handler; a user's _id is written as the local part
\* of the email it was created for
PostGoogle(c, idToken, email) ==
  /\ calls[c].pc = "idle"
  /\ LET call == [IdleCall EXCEPT !.op = "signin"]
           seen == [call EXCEPT !.email = email]
           found == {u \in DOMAIN users : users[u].email = email}
       IN
       IF idToken = "absent"
       THEN /\ calls' = [calls EXCEPT ![c] = Respond(call, 400, "Validation")]
            /\ UNCHANGED <<tokens, users>>
       ELSE IF idToken = "invalid"
       THEN /\ calls' = [calls EXCEPT ![c] = Respond(call, 400, "InvalidCredential")]
            /\ UNCHANGED <<tokens, users>>
       ELSE IF idToken = "expired"
       THEN /\ calls' = [calls EXCEPT ![c] = Respond(call, 500, "Internal")]
            /\ UNCHANGED <<tokens, users>>
       ELSE IF ~emailAllowed(email)
       THEN /\ calls' = [calls EXCEPT ![c] = Respond(seen, 403, "Forbidden")]
            /\ UNCHANGED <<tokens, users>>
       ELSE IF found = {}
       THEN LET id == email[1]
                doc == NewUser(email)
            IN
            IF UserSaveOk(doc, {"email", "role"})
            THEN /\ users' = (id :> doc) @@ users
                 /\ tokens' = tokens \cup {Token(id, doc.role)}
                 /\ calls' = [calls EXCEPT ![c] =
                      [Respond(seen, 200, "OK") EXCEPT !.actor = id,
                                                       !.token = Token(id, doc.role)]]
            ELSE /\ calls' = [calls EXCEPT ![c] = Respond(seen, 500, "Internal")]
                 /\ UNCHANGED <<tokens, users>>
       ELSE LET id == CHOOSE u \in found : TRUE IN
            IF UserSaveOk(users[id], {})
            THEN /\ tokens' = tokens \cup {Token(id, users[id].role)}
                 /\ calls' = [calls EXCEPT ![c] =
                      [Respond(seen, 200, "OK") EXCEPT !.actor = id,
                                                       !.token = Token(id, users[id].role)]]
                 /\ UNCHANGED users
            ELSE /\ calls' = [calls EXCEPT ![c] = Respond(seen, 500, "Internal")]
                 /\ UNCHANGED <<tokens, users>>
  /\ UNCHANGED <<leaves, nextId, now, client>>

GoogleSignIn(c, In) ==
  \E idToken \in In.idTokens, email \in In.emails : PostGoogle(c, idToken, email)

\* GET /verify
VerifyToken(c) ==
  /\ calls[c].pc = "authed" /\ calls[c].op = "verify"
  /\ calls' = [calls EXCEPT ![c] =
       [Respond(calls[c], 200, "OK") EXCEPT !.docs = (calls[c].actor :> users[calls[c].actor])]]
  /\ UNCHANGED <<tokens, users, leaves, nextId, now, client>>

\* POST /refresh
RefreshToken(c) ==
  /\ calls[c].pc = "authed" /\ calls[c].op = "refresh"
  /\ tokens' = tokens \cup {Token(calls[c].actor, calls[c].role)}
  /\ calls' = [calls EXCEPT ![c] =
       [Respond(calls[c], 200, "OK") EXCEPT !.token = Token(calls[c].actor, calls[c].role)]]
  /\ UNCHANGED <<users, leaves, nextId, now, client>>

\* ----------------------------------------------------------------- profile
\* the body of PUT /profile: the keys this model follows, "undefined" or
\* Undefined for a key the body does not have
ProfileBodies ==
  [fieldError : BOOLEAN, role : {"undefined", "admin"},
   email : {<<>>, <<"me", "@", "gmail.com">>},
   isActive : {"undefined", "true", "false"},
   studentId : {Undefined, 0, SeedStudentId}, year : {Undefined, 0, SeedYear, 5}]

\* the keys each handler deletes from updateData
DeletedKeys(op) ==
  IF op = "userProfile" THEN {"email", "role", "googleId", "studentId", "year"}
  ELSE {"email", "role", "googleId"}

\* Object.keys(updateData).forEach(key => user[key] = updateData[key])
AssignedKeys(op, body) ==
  {k \in {"role", "email", "isActive", "studentId", "year"} \ DeletedKeys(op) :
     CASE k = "role" -> body.role # "undefined"
       [] k = "email" -> body.email # <<>>
       [] k = "isActive" -> body.isActive # "undefined"
       [] k = "studentId" -> body.studentId # Undefined
       [] k = "year" -> body.year # Undefined}

Assign(user, keys, body) ==
  [role |-> IF "role" \in keys THEN body.role ELSE user.role,
   email |-> IF "email" \in keys THEN lowercase(body.email) ELSE user.email,
   isActive |-> IF "isActive" \in keys THEN CastBoolean(body.isActive) ELSE user.isActive,
   studentId |-> IF "studentId" \in keys THEN body.studentId ELSE user.studentId,
   year |-> IF "year" \in keys THEN body.year ELSE user.year]

\* PUT /profile of either router, from validationResult to the response
UpdateProfile(c, In, op) ==
  /\ calls[c].pc = "authed" /\ calls[c].op = op
  /\ \E body \in In.profileBodies :
       LET call == calls[c]
           keys == AssignedKeys(op, body)
           doc == Assign(users[call.actor], keys, body)
       IN
       IF body.fieldError
       THEN /\ calls' = [calls EXCEPT ![c] = Respond(call, 400, "Validation")]
            /\ UNCHANGED users
       ELSE IF UserSaveOk(doc, keys)
       THEN /\ users' = [users EXCEPT ![call.actor] = doc]
            /\ calls' = [calls EXCEPT ![c] = Respond(call, 200, "OK")]
       ELSE /\ calls' = [calls EXCEPT ![c] = Respond(call, 500, "Internal")]
            /\ UNCHANGED users
  /\ UNCHANGED <<tokens, leaves, nextId, now, client>>

AuthProfile(c, In) == UpdateProfile(c, In, "authProfile")

UserProfile(c, In) == UpdateProfile(c, In, "userProfile")

\* ------------------------------------------------------------------- admin
BadUserId == "bad"       \* an :id that is not a well-formed ObjectId
MissingUserId == "zz"    \* a well-formed id of no user

RoleInputs == Roles \cup {"superuser"}
ActiveInputs == {"true", "false", "maybe"}

\* the admin's own id as target: if (user._id.toString() === req.user._id.toString())
isSelf(id, userId) == id = userId

\* PUT /users/:id/role, from validationResult to the response
SetRole(c, In) ==
  /\ calls[c].pc = "authed" /\ calls[c].op = "setRole"
  /\ \E id \in In.targets, role \in In.roleInputs :
       LET call == [calls[c] EXCEPT !.target = id, !.reqRole = role] IN
       IF id = BadUserId \/ role \notin Roles
       THEN /\ calls' = [calls EXCEPT ![c] = Respond(call, 400, "Validation")]
            /\ UNCHANGED users
       ELSE IF id \notin DOMAIN users
       THEN /\ calls' = [calls EXCEPT ![c] = Respond(call, 404, "NotFound")]
            /\ UNCHANGED users
       ELSE IF isSelf(id, call.actor)
       THEN /\ calls' = [calls EXCEPT ![c] = Respond(call, 400, "SelfAction")]
            /\ UNCHANGED users
       ELSE IF UserSaveOk([users[id] EXCEPT !.role = role], {"role"})
       THEN /\ users' = [users EXCEPT ![id].role = role]
            /\ calls' = [calls EXCEPT ![c] = Respond(call, 200, "OK")]
       ELSE /\ calls' = [calls EXCEPT ![c] = Respond(call, 500, "Internal")]
            /\ UNCHANGED users
  /\ UNCHANGED <<tokens, leaves, nextId, now, client>>

\* PUT /users/:id/status, from validationResult to the response
SetStatus(c, In) ==
  /\ calls[c].pc = "authed" /\ calls[c].op = "setStatus"
  /\ \E id \in In.targets, isActive \in In.activeInputs :
       LET call == [calls[c] EXCEPT !.target = id, !.reqActive = isActive] IN
       IF id = BadUserId \/ isActive \notin {"true", "false"}
       THEN /\ calls' = [calls EXCEPT ![c] = Respond(call, 400, "Validation")]
            /\ UNCHANGED users
       ELSE IF id \notin DOMAIN users
       THEN /\ calls' = [calls EXCEPT ![c] = Respond(call, 404, "NotFound")]
            /\ UNCHANGED users
       ELSE IF isSelf(id, call.actor)
       THEN /\ calls' = [calls EXCEPT ![c] = Respond(call, 400, "SelfAction")]
            /\ UNCHANGED users
       ELSE IF UserSaveOk([users[id] EXCEPT !.isActive = CastBoolean(isActive)], {"isActive"})
       THEN /\ users' = [users EXCEPT ![id].isActive = CastBoolean(isActive)]
            /\ calls' = [calls EXCEPT ![c] = Respond(call, 200, "OK")]
       ELSE /\ calls' = [calls EXCEPT ![c] = Respond(call, 500, "Internal")]
            /\ UNCHANGED users
  /\ UNCHANGED <<tokens, leaves, nextId, now, client>>

\* --------------------------------------------------------------- directory
\* GET /search and GET /:id of the user router; both mount
\* requireOwnershipOrAdmin() with its default field, 'student'
\* the JSON body a client sends along: none, or one with a student key
OwnerBodies(ids) == {<<>>} \cup {[student |-> id] : id \in ids}

BodyStudent(body) == IF "student" \in DOMAIN body THEN body.student ELSE "undefined"

\* GET /:id of the user router: the ownership middleware, then the handler
GetUser(c, In) ==
  /\ calls[c].pc = "authed" /\ calls[c].op = "getUser"
  /\ \E id \in In.targets, body \in OwnerBodies(In.owners) :
       LET call == [calls[c] EXCEPT !.target = id, !.student = BodyStudent(body)] IN
       IF ~requireOwnershipOrAdmin(call.role, call.actor, [id |-> id], body, "student")
       THEN calls' = [calls EXCEPT ![c] = Respond(call, 403, "Forbidden")]
       ELSE IF id = BadUserId
       THEN calls' = [calls EXCEPT ![c] = Respond(call, 500, "Internal")]
       ELSE IF id \notin DOMAIN users
       THEN calls' = [calls EXCEPT ![c] = Respond(call, 404, "NotFound")]
       ELSE calls' = [calls EXCEPT ![c] =
              [Respond(call, 200, "OK") EXCEPT !.docs = (id :> users[id])]]
  /\ UNCHANGED <<tokens, users, leaves, nextId, now, client>>

\* GET /search: the ownership middleware, then the handler; req.query.role
\* filters, and the directory is smaller than the limit of the query
SearchUsers(c, In) ==
  /\ calls[c].pc = "authed" /\ calls[c].op = "search"
  /\ \E role \in In.filters, body \in OwnerBodies(In.owners) :
       LET call == [calls[c] EXCEPT !.filter = role, !.student = BodyStudent(body)]
           found == {u \in DOMAIN users : role = "undefined" \/ users[u].role = role}
       IN
       IF ~requireOwnershipOrAdmin(call.role, call.actor, <<>>, body, "student")
       THEN calls' = [calls EXCEPT ![c] = Respond(call, 403, "Forbidden")]
       ELSE calls' = [calls EXCEPT ![c] =
              [Respond(call, 200, "OK") EXCEPT
                 !.docs = [u \in found |->
                             [email |-> users[u].email, studentId |-> users[u].studentId,
                              year |-> users[u].year]]]]
  /\ UNCHANGED <<tokens, users, leaves, nextId, now, client>>

\* --------------------------------------------------------- specifications
\* a body with every required field valid and no optional or extra field
PlainBodies ==
  {b \in ApplyBodies :
     /\ b.fieldErrors = {} /\ b.isUrgent = "undefined" /\ b.urgentReason = NoStr
     /\ b.status = "undefined" /\ b.student = "undefined"}

\* what the clients send in a specification: tokens, ids, bodies, and how many
\* requests they ever create
SeqInputs ==
  [ops |-> Ops, tokens |-> Tokens, ids |-> ReqIds, remarks |-> RemarksInputs,
   bodies |-> ApplyBodies, maxLeaves |-> MaxSeqLeaves]

ConcInputs ==
  [ops |-> Ops \ {"pending"}, tokens |-> {"s1", "c1", "w1"}, ids |-> LeaveIds,
   remarks |-> {Str(0, MinRemarks)},
   bodies |-> PlainBodies, maxLeaves |-> MaxLeaves]

\* every kind of caller, one student; bodies may carry status and student
RolesInputs ==
  [ops |-> Ops, tokens |-> Tokens \ {"s2"}, ids |-> ReqIds,
   remarks |-> {Str(0, MinRemarks)},
   bodies |-> {b \in ApplyBodies :
                 /\ b.fieldErrors = {} /\ b.isUrgent = "undefined"
                 /\ b.urgentReason = NoStr
                 /\ (b.status = "undefined") = (b.student = "undefined")},
   maxLeaves |-> MaxSeqLeaves]

\* two students and one approver
OwnerInputs ==
  [ops |-> Ops, tokens |-> {"s1", "s2", "c1"}, ids |-> ReqIds,
   remarks |-> {Str(0, MinRemarks)}, bodies |-> PlainBodies,
   maxLeaves |-> MaxSeqLeaves]

\* one student and one approver, every remarks input and every body field
FieldInputs ==
  [ops |-> Ops, tokens |-> {"s1", "c1"}, ids |-> ReqIds,
   remarks |-> RemarksInputs,
   bodies |-> {b \in ApplyBodies : b.status = "undefined" /\ b.student = "undefined"},
   maxLeaves |-> MaxSeqLeaves]

\* one student and one approver: every remarks input with plain bodies, and
\* every date and field-format input with one remarks input
RemarksOnlyInputs == [FieldInputs EXCEPT !.bodies = PlainBodies]

DatesOnlyInputs ==
  [FieldInputs EXCEPT
     !.remarks = {Str(0, MinRemarks)},
     !.bodies = {b \in ApplyBodies :
                   /\ b.isUrgent = "undefined" /\ b.urgentReason = NoStr
                   /\ b.status = "undefined" /\ b.student = "undefined"}]

\* the handlers that write the store
Lifecycle(c, In) ==
  \/ Authenticate(c, In)
  \/ ApplyCheck(c, In)
  \/ ApplySave(c, In)
  \/ ApproveLoad(c, In)
  \/ ApproveSave(c)
  \/ RejectLoad(c, In)
  \/ RejectSave(c)
  \/ CancelLoad(c, In)
  \/ CancelDelete(c)
  \/ Return(c)

\* one request at a time: no handler overlaps another
NextSeq == Tick \/ Lifecycle(1, SeqInputs) \/ GetPending(1)

Spec == Init /\ [][NextSeq]_vars

\* one request at a time, by aspect of the input
NextRoles == Tick \/ Lifecycle(1, RolesInputs) \/ GetPending(1)

SpecRoles == Init /\ [][NextRoles]_vars

NextOwner == Tick \/ Lifecycle(1, OwnerInputs) \/ GetPending(1)

SpecOwner == Init /\ [][NextOwner]_vars

NextFields == Tick \/ Lifecycle(1, FieldInputs) \/ GetPending(1)

SpecFields == Init /\ [][NextFields]_vars

NextRemarks == Tick \/ Lifecycle(1, RemarksOnlyInputs) \/ GetPending(1)

SpecRemarks == Init /\ [][NextRemarks]_vars

NextDates == Tick \/ Lifecycle(1, DatesOnlyInputs) \/ GetPending(1)

SpecDates == Init /\ [][NextDates]_vars

\* the read routes beside the lifecycle: two students, an approver, an admin
ViewInputs ==
  [ops |-> (Ops \ {"pending", "approve"}) \cup ReadOps,
   tokens |-> {"s1", "s2", "c1", "a1"}, ids |-> ReqIds,
   remarks |-> {Str(0, MinRemarks)}, bodies |-> PlainBodies,
   maxLeaves |-> MaxSeqLeaves]

NextView ==
  \/ Tick
  \/ Lifecycle(1, ViewInputs)
  \/ ViewLeave(1, ViewInputs)
  \/ GetMyRequests(1)

SpecView == Init /\ [][NextView]_vars

\* the admin's role and status routes, called by every kind of user
AdminInputs ==
  [ops |-> {"setRole", "setStatus"}, tokens |-> {"a1", "c1", "s1", NoUser},
   targets |-> {"a1", "c1", "s1", BadUserId, MissingUserId},
   roleInputs |-> RoleInputs, activeInputs |-> ActiveInputs]

NextAdmin ==
  \/ Authenticate(1, AdminInputs)
  \/ SetRole(1, AdminInputs)
  \/ SetStatus(1, AdminInputs)
  \/ Return(1)

SpecAdmin == Init /\ [][NextAdmin]_vars

\* role changes between the issue and the use of session tokens
TokenInputs ==
  [ops |-> {"setRole", "refresh", "pending"}, tokens |-> {"a1", "c1", "s1"},
   targets |-> {"a1", "c1", "s1"}, roleInputs |-> {"caretaker", "admin"},
   idTokens |-> {"valid"}, emails |-> {Email("c1"), Email("s1")}]

NextTokens ==
  \/ Authenticate(1, TokenInputs)
  \/ GoogleSignIn(1, TokenInputs)
  \/ RefreshToken(1)
  \/ SetRole(1, TokenInputs)
  \/ GetPending(1)
  \/ Return(1)

SpecTokens == Init /\ [][NextTokens]_vars

\* sign-in with every answer of the identity provider, and the profile routes
\* with bodies that carry an email and student fields
SignInInputs ==
  [ops |-> {"authProfile", "userProfile"}, tokens |-> {"s1", "c1", "n1"},
   idTokens |-> IdTokens, emails |-> EmailInputs,
   profileBodies |-> {b \in ProfileBodies :
                        b.role = "undefined" /\ b.isActive = "undefined"}]

NextSignIn ==
  \/ Authenticate(1, SignInInputs)
  \/ GoogleSignIn(1, SignInInputs)
  \/ AuthProfile(1, SignInInputs)
  \/ UserProfile(1, SignInInputs)
  \/ Return(1)

SpecSignIn == Init /\ [][NextSignIn]_vars

\* the whole user API, by an admin, a caretaker and a student
UsersInputs ==
  [ops |-> UserOps \ {"refresh"}, tokens |-> {"a1", "c1", "s1"},
   targets |-> {"a1", "c1", "s1"}, roleInputs |-> {"student", "caretaker", "admin"},
   activeInputs |-> {"true", "false"},
   idTokens |-> {"valid"}, emails |-> {Email("s1"), Email("n1")},
   profileBodies |-> {b \in ProfileBodies :
                        /\ ~b.fieldError /\ b.email = <<>>
                        /\ b.studentId \in {Undefined, 0} /\ b.year = Undefined}]

NextUsers ==
  \/ Authenticate(1, UsersInputs)
  \/ GoogleSignIn(1, UsersInputs)
  \/ AuthProfile(1, UsersInputs)
  \/ UserProfile(1, UsersInputs)
  \/ SetRole(1, UsersInputs)
  \/ SetStatus(1, UsersInputs)
  \/ Return(1)

SpecUsers == Init /\ [][NextUsers]_vars

\* the routes that look at who owns a request or a record: view and cancel of
\* the leave router, search and fetch of the user router
AccessInputs ==
  [ops |-> (Ops \ {"pending"}) \cup {"view", "search", "getUser"},
   tokens |-> {"s1", "c1", "a1"}, ids |-> ReqIds,
   remarks |-> {Str(0, MinRemarks)}, bodies |-> PlainBodies,
   maxLeaves |-> MaxSeqLeaves,
   targets |-> {"s1", "s2", "c1", "a1", BadUserId, MissingUserId},
   owners |-> {"s1", "c1", "s2"}, filters |-> {"undefined", "student"}]

NextAccess ==
  \/ Lifecycle(1, AccessInputs)
  \/ ViewLeave(1, AccessInputs)
  \/ GetUser(1, AccessInputs)
  \/ SearchUsers(1, AccessInputs)

SpecAccess == Init /\ [][NextAccess]_vars

\* durations: the store holds one or two decided requests of s1 that do not
\* overlap, the first approved, with dates at any time of the days 0..MaxDay
DurationDates == 0..((MaxDay + 1) * InstantsPerDay - 1)

DecidedRequest(fromDate, toDate, status) ==
  [NewLeaveRequest("s1", fromDate, toDate, FALSE, Undefined, 0) EXCEPT
     !.status = status, !.approvedBy = "c1", !.approvedAt = 0, !.remarks = 0]

InitDuration ==
  /\ tokens = InitialTokens
  /\ users = InitialUsers
  /\ now = 0
  /\ calls = [c \in 1..MaxCalls |-> IdleCall]
  /\ client = AuthProvider(NoToken)
  /\ \E a, b, c, d \in DurationDates, st \in {"approved", "rejected"} :
       /\ a <= b /\ c <= d
       /\ \/ leaves = (1 :> DecidedRequest(a, b, "approved")) /\ nextId = 2 /\ c = a /\ d = b
             /\ st = "approved"
          \/ /\ b < c
             /\ leaves = (1 :> DecidedRequest(a, b, "approved")) @@ (2 :> DecidedRequest(c, d, st))
             /\ nextId = 3

DurationInputs == [ops |-> {"mine", "stats"}, tokens |-> {"s1", "c1"}]

NextDuration ==
  \/ Authenticate(1, DurationInputs)
  \/ GetMyRequests(1)
  \/ GetStats(1)
  \/ Return(1)

SpecDuration == InitDuration /\ [][NextDuration]_vars

\* the admin routes with up to MaxCalls requests in flight: a request is
\* authenticated against the directory as it is then, and its handler runs
\* after whatever the other requests wrote meanwhile
AdminConcInputs ==
  [ops |-> {"setRole", "setStatus"}, tokens |-> {"a1", "c1"},
   targets |-> {"a1", "c1"}, roleInputs |-> {"admin", "caretaker"},
   activeInputs |-> {"true", "false"}]

NextAdminConc ==
  \E c \in 1..MaxCalls :
    \/ Authenticate(c, AdminConcInputs)
    \/ SetRole(c, AdminConcInputs)
    \/ SetStatus(c, AdminConcInputs)
    \/ Return(c)

SpecAdminConc == Init /\ [][NextAdminConc]_vars

\* the lifecycle beside the admin's role route: a student, and an admin who
\* may change that student's role
PromoteInputs ==
  [ops |-> (Ops \ {"pending"}) \cup {"setRole"}, tokens |-> {"s1", "a1"},
   ids |-> ReqIds, remarks |-> {Str(0, MinRemarks)}, bodies |-> PlainBodies,
   maxLeaves |-> MaxSeqLeaves,
   targets |-> {"s1"}, roleInputs |-> {"caretaker", "student"}]

NextPromote == Lifecycle(1, PromoteInputs) \/ SetRole(1, PromoteInputs)

SpecPromote == Init /\ [][NextPromote]_vars

\* deactivation and reactivation by the admin, between the requests and the
\* sign-ins of the users it concerns
DeactivateInputs ==
  [ops |-> (Ops \ {"pending"}) \cup {"setStatus", "authProfile"},
   tokens |-> {"s1", "c1", "a1", "x1"},
   ids |-> LeaveIds, remarks |-> {Str(0, MinRemarks)},
   bodies |-> {b \in PlainBodies : b.fromDate = b.toDate},
   maxLeaves |-> MaxSeqLeaves,
   targets |-> {"s1", "c1"}, activeInputs |-> {"true", "false"},
   idTokens |-> {"valid"}, emails |-> {Email("c1"), Email("s1")},
   profileBodies |-> {b \in ProfileBodies :
                        /\ ~b.fieldError /\ b.role = "undefined" /\ b.email = <<>>
                        /\ b.isActive \in {"undefined", "true"}
                        /\ b.studentId = Undefined /\ b.year \in {Undefined, SeedYear}}]

NextDeactivate ==
  \/ Lifecycle(1, DeactivateInputs)
  \/ GoogleSignIn(1, DeactivateInputs)
  \/ SetStatus(1, DeactivateInputs)
  \/ AuthProfile(1, DeactivateInputs)

SpecDeactivate == Init /\ [][NextDeactivate]_vars

\* ---------------------------------------------------------- auth provider
\* checkAuthStatus up to its await: without a stored token it only clears
\* isLoading, with one it sends GET /auth/verify
CheckAuthStart ==
  /\ client.check.pc = "mounted"
  /\ client' = IF client.token # NoToken
               THEN [client EXCEPT !.check = [pc |-> "sent", token |-> client.token],
                                   !.last = "check"]
               ELSE [client EXCEPT !.check.pc = "done", !.isLoading = FALSE,
                                   !.last = "check"]
  /\ UNCHANGED <<tokens, users, leaves, nextId, now, calls>>

\* the backend receives the provider's GET /auth/verify
ServeVerify(c) ==
  /\ client.check.pc = "sent"
  /\ Authenticate(c, [ops |-> {"verify"}, tokens |-> {client.check.token.userId}])

\* checkAuthStatus after its await: setUser on success, removeItem in the
\* catch, setIsLoading(false) in the finally
CheckAuthResolve(c) ==
  /\ client.check.pc = "sent"
  /\ calls[c].pc = "done" /\ calls[c].op = "verify"
  /\ client' = IF calls[c].code < 400
               THEN [client EXCEPT !.check.pc = "done", !.user = calls[c].actor,
                                   !.isLoading = FALSE]
               ELSE [client EXCEPT !.check.pc = "done", !.token = NoToken,
                                   !.isLoading = FALSE]
  /\ calls' = [calls EXCEPT ![c] = IdleCall]
  /\ UNCHANGED <<tokens, users, leaves, nextId, now>>

\* login(credential) up to its await: setIsLoading(true) and the POST
\* /auth/google whose body is { credential }
LoginStart ==
  /\ client.login.pc = "idle"
  /\ \E credential \in Credentials :
       client' = [client EXCEPT !.login = [pc |-> "sent", body |-> [credential |-> credential]],
                                !.isLoading = TRUE, !.result = "none", !.last = "login"]
  /\ UNCHANGED <<tokens, users, leaves, nextId, now, calls>>

\* const { idToken } = req.body
BodyIdToken(body) == IF "idToken" \in DOMAIN body THEN body.idToken ELSE NoCredential

\* the backend receives the provider's POST /auth/google
ServeLogin(c) ==
  /\ client.login.pc = "sent"
  /\ PostGoogle(c, BodyIdToken(client.login.body).kind, BodyIdToken(client.login.body).email)

\* login after its await: setItem, setUser, router.push and success, or the
\* catch's failure; setIsLoading(false) in the finally
LoginResolve(c) ==
  /\ client.login.pc = "sent"
  /\ calls[c].pc = "done" /\ calls[c].op = "signin"
  /\ client' = IF calls[c].code < 400
               THEN [client EXCEPT !.login = [pc |-> "idle", body |-> <<>>],
                                   !.token = calls[c].token, !.user = calls[c].actor,
                                   !.route = "dashboard", !.result = "success",
                                   !.isLoading = FALSE]
               ELSE [client EXCEPT !.login = [pc |-> "idle", body |-> <<>>],
                                   !.result = "failure", !.isLoading = FALSE]
  /\ calls' = [calls EXCEPT ![c] = IdleCall]
  /\ UNCHANGED <<tokens, users, leaves, nextId, now>>

\* logout
Logout ==
  /\ client' = [client EXCEPT !.token = NoToken, !.user = NoUser, !.route = "/",
                              !.last = "logout"]
  /\ UNCHANGED <<tokens, users, leaves, nextId, now, calls>>

\* the page is loaded with whatever an earlier session left in localStorage:
\* nothing, the token of an active user, or the token of a deactivated one
InitClient ==
  /\ tokens = InitialTokens
  /\ users = InitialUsers
  /\ leaves = <<>>
  /\ nextId = 1
  /\ now = 0
  /\ calls = [c \in 1..MaxCalls |-> IdleCall]
  /\ \E token \in {NoToken, Token("s1", "student"), Token("x1", "caretaker")} :
       client = AuthProvider(token)

NextClient ==
  \/ CheckAuthStart
  \/ ServeVerify(1)
  \/ VerifyToken(1)
  \/ CheckAuthResolve(1)
  \/ LoginStart
  \/ ServeLogin(1)
  \/ LoginResolve(1)
  \/ Logout

SpecClient == InitClient /\ [][NextClient]_vars

\* up to MaxCalls requests in flight, interleaved at their awaits
NextConc == Tick \/ \E c \in 1..MaxCalls : Lifecycle(c, ConcInputs)

SpecConc == Init /\ [][NextConc]_vars

Slots == DOMAIN calls

Decided == {"approved", "rejected"}

\* ------------------------------------------------------------------ claims

\* C1: two concurrent approve calls on the same pending request never both
\* report success (one succeeds, the other gets 'Leave request is not pending').
C1_OneApproveSucceeds ==
  \A c, d \in Slots :
    (/\ c # d
     /\ calls[c].pc = "done" /\ calls[c].op = "approve"
     /\ calls[d].pc = "done" /\ calls[d].op = "approve"
     /\ calls[c].id = calls[d].id)
    => ~(calls[c].code = 200 /\ calls[d].code = 200)

\* C2: no student ever owns two distinct requests, both pending or approved,
\* whose date intervals intersect inclusively.
C2_NoOverlappingActive ==
  \A a, b \in DOMAIN leaves :
    (/\ a # b
     /\ leaves[a].student = leaves[b].student
     /\ leaves[a].status \in {"pending", "approved"}
     /\ leaves[b].status \in {"pending", "approved"})
    => ~(leaves[a].fromDate <= leaves[b].toDate /\ leaves[a].toDate >= leaves[b].fromDate)

\* C3: once the persisted status of a request is approved or rejected, no step
\* changes it (not to the other decision, not back to pending).
C3_StatusChangesOnce ==
  [][\A id \in DOMAIN leaves \cap DOMAIN leaves' :
       leaves[id].status \in Decided => leaves'[id].status = leaves[id].status]_vars

\* C4: a request is removed from the store only while its persisted status is
\* pending; an approved or rejected request is never deleted.
C4_DeleteOnlyPending ==
  [][\A id \in DOMAIN leaves \ DOMAIN leaves' : leaves[id].status = "pending"]_vars

\* C5: with no concurrent operation, approve or reject by an approver with a
\* well-formed id and remarks on a request that is approved or rejected answers
\* 'not pending' (invalid input is answered as a validation error first); in
\* every case the call fails with 400 and the stored request is unchanged.
C5_DecidedIsRefused ==
  [][\A c \in Slots :
       (/\ calls[c].pc = "authed" /\ calls[c].op \in {"approve", "reject"}
        /\ calls'[c].pc # "authed"
        /\ calls'[c].id \in DOMAIN leaves
        /\ leaves[calls'[c].id].status \in Decided)
       => /\ calls'[c].pc = "done" /\ calls'[c].code = 400
          /\ calls'[c].err \in {"NotPending", "Validation"}
          /\ (calls'[c].err = "Validation" =>
                \/ (calls'[c].op = "reject" /\
                      (calls'[c].remarks < MinRemarks \/ calls'[c].remarks > MaxRemarks))
                \/ calls'[c].remarks > MaxRemarks)
          /\ leaves' = leaves]_vars

C5_Witness ==
  \E c \in Slots :
    /\ calls[c].pc = "done" /\ calls[c].op = "reject" /\ calls[c].err = "NotPending"
    /\ calls[c].id \in DOMAIN leaves /\ leaves[calls[c].id].status = "approved"

\* C6: a submit whose fromDate is before the time of submission, or whose
\* toDate is before its fromDate, is answered 400 and the store is unchanged;
\* every stored request has toDate >= fromDate and fromDate >= createdAt.
C6_BadDatesRefused ==
  [][/\ \A c \in Slots :
          (/\ calls[c].pc = "authed" /\ calls[c].op = "apply"
           /\ calls'[c].pc # "authed"
           /\ (calls'[c].fromDate < now \/ calls'[c].toDate < calls'[c].fromDate))
          => /\ calls'[c].pc = "done" /\ calls'[c].code = 400
             /\ calls'[c].err \in {"Validation", "PastDate", "DateOrder"}
             /\ leaves' = leaves
     /\ \A id \in DOMAIN leaves' :
          /\ leaves'[id].toDate >= leaves'[id].fromDate
          /\ leaves'[id].fromDate >= leaves'[id].createdAt]_vars

C6_Witness ==
  /\ DOMAIN leaves # {}
  /\ \E c \in Slots :
       /\ calls[c].pc = "done" /\ calls[c].op = "apply"
       /\ calls[c].err = "PastDate" /\ calls[c].fromDate < now

\* C7: reject on a pending request with absent or empty remarks fails with a
\* validation error and leaves the request pending; approve on a pending
\* request with no remarks succeeds and stores the empty string as remarks.
C7_RemarksRules ==
  [][\A c \in Slots :
       /\ (/\ calls[c].pc = "authed" /\ calls[c].op = "reject"
           /\ calls'[c].pc # "authed"
           /\ calls'[c].id \in DOMAIN leaves
           /\ leaves[calls'[c].id].status = "pending"
           /\ calls'[c].remarks \in {Undefined, 0})
          => /\ calls'[c].pc = "done" /\ calls'[c].code = 400
             /\ calls'[c].err = "Validation"
             /\ leaves' = leaves
       /\ (/\ calls[c].pc = "loaded" /\ calls[c].op = "approve"
           /\ calls[c].remarks = Undefined
           /\ calls'[c].pc = "done")
          => /\ calls'[c].code = 200
             /\ calls[c].id \in DOMAIN leaves'
             /\ leaves'[calls[c].id].status = "approved"
             /\ leaves'[calls[c].id].remarks = 0]_vars

\* C8: a student's cancel of another student's request is answered Forbidden
\* whatever its status, of their own decided request 'only pending can be
\* cancelled', both leaving the store unchanged; of their own pending request
\* it removes the request.
C8_CancelRules ==
  [][\A c \in Slots :
       /\ (/\ calls[c].pc = "authed" /\ calls[c].op = "cancel"
           /\ calls'[c].pc # "authed"
           /\ calls'[c].id \in DOMAIN leaves)
          => LET doc == leaves[calls'[c].id] IN
             IF doc.student # calls[c].actor
             THEN /\ calls'[c].pc = "done" /\ calls'[c].code = 403
                  /\ calls'[c].err = "Forbidden" /\ leaves' = leaves
             ELSE IF doc.status \in Decided
             THEN /\ calls'[c].pc = "done" /\ calls'[c].code = 400
                  /\ calls'[c].err = "NotPending" /\ leaves' = leaves
             ELSE calls'[c].pc = "loaded" /\ leaves' = leaves
       /\ (calls[c].pc = "loaded" /\ calls[c].op = "cancel")
          => /\ calls[c].id \in DOMAIN leaves
             /\ leaves[calls[c].id].student = calls[c].actor
             /\ leaves[calls[c].id].status = "pending"
             /\ (calls'[c].pc # "loaded" =>
                   /\ calls'[c].pc = "done" /\ calls'[c].code = 200
                   /\ calls[c].id \notin DOMAIN leaves')]_vars

C8_Witness ==
  \E c \in Slots :
    /\ calls[c].pc = "done" /\ calls[c].op = "cancel" /\ calls[c].err = "Forbidden"
    /\ calls[c].id \in DOMAIN leaves /\ leaves[calls[c].id].status = "approved"
    /\ leaves[calls[c].id].student # calls[c].actor

\* C9: submit by an authenticated actor whose role is not student is answered
\* Forbidden and stores nothing; every request a submit creates is pending, is
\* owned by the authenticated student who submitted it and has no approvedBy /
\* approvedAt, whatever the body holds.
C9_SubmitOnlyStudents ==
  [][/\ \A c \in Slots :
          (/\ calls[c].pc = "idle" /\ calls'[c].op = "apply"
           /\ calls'[c].role \in Roles \ {"student"})
          => /\ calls'[c].pc = "done" /\ calls'[c].code = 403
             /\ calls'[c].err = "Forbidden" /\ leaves' = leaves
     /\ \A id \in DOMAIN leaves' \ DOMAIN leaves :
          \E c \in Slots :
            /\ calls[c].pc = "loaded" /\ calls[c].op = "apply"
            /\ calls'[c].pc = "done" /\ calls'[c].code = 201
            /\ users[calls[c].actor].role = "student"
            /\ leaves'[id].student = calls[c].actor
            /\ leaves'[id].status = "pending"
            /\ leaves'[id].approvedBy = NoUser
            /\ leaves'[id].approvedAt = Undefined]_vars

C9_Witness ==
  /\ \E id \in DOMAIN leaves : leaves[id].status = "pending" /\ leaves[id].student = "s1"
  /\ \E c \in Slots :
       /\ calls[c].pc = "done" /\ calls[c].op = "apply"
       /\ calls[c].role = "admin" /\ calls[c].code = 403

\* C10: approve, reject and list-pending get past authorisation, and so can
\* succeed, exactly for the roles caretaker, warden and admin; a student is
\* answered Forbidden and the store is unchanged.
ApproverOps == {"approve", "reject", "pending"}

C10_ApproverRoles ==
  [][\A c \in Slots :
       /\ (calls[c].pc = "idle" /\ calls'[c].op \in ApproverOps /\ calls'[c].role \in Roles)
          => /\ leaves' = leaves
             /\ IF calls'[c].role \in {"caretaker", "warden", "admin"}
                THEN calls'[c].pc = "authed"
                ELSE /\ calls'[c].pc = "done" /\ calls'[c].code = 403
                     /\ calls'[c].err = "Forbidden"
       /\ (calls'[c].op \in ApproverOps /\ calls'[c].code = 200)
          => calls'[c].role \in {"caretaker", "warden", "admin"}
       /\ (calls[c].pc = "authed" /\ calls[c].op = "pending" /\ calls'[c].pc # "authed")
          => /\ calls'[c].pc = "done" /\ calls'[c].code = 200
             /\ calls'[c].list = {id \in DOMAIN leaves : leaves[id].status = "pending"}
             /\ leaves' = leaves]_vars

C10_Witness ==
  /\ \E c \in Slots :
       /\ calls[c].pc = "done" /\ calls[c].op = "approve" /\ calls[c].code = 200
       /\ calls[c].role = "admin"
  /\ \E id \in DOMAIN leaves : leaves[id].status = "approved" /\ leaves[id].approvedBy = "a1"

\* C11: view of an existing request returns its contents exactly when the
\* actor owns it, is approver-capable or is an admin; a student who does not
\* own it is answered Forbidden with no field of the request; list-own returns
\* exactly the actor's requests.
C11_ViewRules ==
  [][\A c \in Slots :
       /\ (/\ calls[c].pc = "authed" /\ calls[c].op = "view"
           /\ calls'[c].pc # "authed"
           /\ calls'[c].id \in DOMAIN leaves)
          => LET id == calls'[c].id
                 actor == calls[c].actor
                 allowed == \/ leaves[id].student = actor
                            \/ users[actor].role \in {"caretaker", "warden", "admin"}
             IN
             /\ calls'[c].pc = "done" /\ leaves' = leaves
             /\ IF allowed
                THEN calls'[c].code = 200 /\ calls'[c].docs = (id :> leaves[id])
                ELSE /\ calls'[c].code = 403 /\ calls'[c].err = "Forbidden"
                     /\ calls'[c].docs = <<>>
       /\ (/\ calls[c].pc = "authed" /\ calls[c].op = "mine"
           /\ calls'[c].pc # "authed")
          => /\ calls'[c].pc = "done" /\ calls'[c].code = 200 /\ leaves' = leaves
             /\ DOMAIN calls'[c].docs =
                  {id \in DOMAIN leaves : leaves[id].student = calls[c].actor}
             /\ \A id \in DOMAIN calls'[c].docs : calls'[c].docs[id] = leaves[id]]_vars

C11_Witness ==
  \E c \in Slots :
    /\ calls[c].pc = "done" /\ calls[c].op = "view" /\ calls[c].code = 403
    /\ calls[c].role = "student" /\ calls[c].id \in DOMAIN leaves
    /\ leaves[calls[c].id].student # calls[c].actor
    /\ leaves[calls[c].id].status = "rejected"

\* C12: a submit with valid fields and dates is refused for overlap if and
\* only if some stored request of the same student, pending or approved,
\* intersects the draft interval inclusively; otherwise it goes on to be saved.
\* Requests of other students, rejected and deleted requests never refuse it.
C12_OverlapIff ==
  [][\A c \in Slots :
       (/\ calls[c].pc = "authed" /\ calls[c].op = "apply"
        /\ calls'[c].pc # "authed"
        /\ calls'[c].fromDate >= now
        /\ calls'[c].toDate >= calls'[c].fromDate)
       => LET from == calls'[c].fromDate
              to == calls'[c].toDate
              clash == \E id \in DOMAIN leaves :
                         /\ leaves[id].student = calls[c].actor
                         /\ leaves[id].status \in {"pending", "approved"}
                         /\ leaves[id].fromDate <= to
                         /\ leaves[id].toDate >= from
          IN
          /\ leaves' = leaves
          /\ IF clash
             THEN /\ calls'[c].pc = "done" /\ calls'[c].code = 400
                  /\ calls'[c].err = "Overlap"
             ELSE calls'[c].pc = "loaded"]_vars

C12_Witness ==
  \E c \in Slots, id \in DOMAIN leaves :
    /\ calls[c].pc = "done" /\ calls[c].op = "apply" /\ calls[c].err = "Overlap"
    /\ leaves[id].student = calls[c].actor /\ leaves[id].status = "approved"
    /\ leaves[id].toDate = calls[c].fromDate /\ leaves[id].fromDate < calls[c].fromDate

\* C13: a submit with isUrgent true and an absent or empty urgentReason is
\* answered with a validation error (400), never with the generic internal
\* failure, and stores nothing; every stored urgent request has a non-empty
\* urgentReason.
C13_UrgentNeedsReason ==
  [][/\ \A c \in Slots :
          (/\ calls[c].pc = "loaded" /\ calls[c].op = "apply"
           /\ calls[c].isUrgent /\ ~Truthy(calls[c].urgentReason)
           /\ calls'[c].pc = "done")
          => /\ calls'[c].code = 400 /\ calls'[c].err = "Validation"
             /\ leaves' = leaves
     /\ \A id \in DOMAIN leaves' :
          leaves'[id].isUrgent => Truthy(leaves'[id].urgentReason)]_vars

\* C14: when a submit violates several rules at once (a field-format rule, a
\* fromDate in the past, a toDate before the fromDate, an overlap), the failure
\* response names every violated rule, never only the first.
C14_AllRulesReported ==
  [][\A c \in Slots :
       (/\ calls[c].pc = "authed" /\ calls[c].op = "apply"
        /\ calls'[c].pc = "done")
       => LET from == calls'[c].fromDate
              to == calls'[c].toDate
              clash == \E id \in DOMAIN leaves :
                         /\ leaves[id].student = calls[c].actor
                         /\ leaves[id].status \in {"pending", "approved"}
                         /\ leaves[id].fromDate <= to
                         /\ leaves[id].toDate >= from
          IN
          /\ calls'[c].code = 400
          /\ (from < now => "PastDate" \in calls'[c].errs)
          /\ (to < from => "DateOrder" \in calls'[c].errs)
          /\ (clash => "Overlap" \in calls'[c].errs)]_vars

\* C15: the admin role-update and active-status operations with the admin's
\* own id as target fail with a client error and leave the admin's role and
\* active flag unchanged; with any other existing user as target they apply
\* the requested role or flag.
C15_AdminSelfAction ==
  [][\A c \in Slots :
       (/\ calls[c].pc = "authed" /\ calls[c].op \in {"setRole", "setStatus"}
        /\ calls'[c].pc = "done"
        /\ calls'[c].target \in DOMAIN users)
       => LET id == calls'[c].target IN
          IF id = calls[c].actor
          THEN /\ calls'[c].code >= 400 /\ calls'[c].code < 500
               /\ users' = users
          ELSE /\ (calls[c].op = "setRole" /\ calls'[c].reqRole \in Roles)
                  => /\ calls'[c].code = 200
                     /\ users'[id].role = calls'[c].reqRole
               /\ (calls[c].op = "setStatus" /\ calls'[c].reqActive \in {"true", "false"})
                  => /\ calls'[c].code = 200
                     /\ users'[id].isActive = (calls'[c].reqActive = "true")]_vars

\* C16: no request changes the role of the user who is its authenticated
\* actor, and none sets that user's active flag to false.
C16_NoSelfChange ==
  [][\A c \in Slots :
       (calls[c].pc = "authed" /\ calls'[c].pc = "done" /\ calls[c].actor \in DOMAIN users)
       => LET u == calls[c].actor IN
          /\ users'[u].role = users[u].role
          /\ (users[u].isActive => users'[u].isActive)]_vars

\* C17: a request carrying a session token is authorised according to the
\* role the token carries, the role its user held when it was issued: a role
\* change governs only the tokens issued after it.
C17_RoleOfTheToken ==
  [][\A c \in Slots :
       (/\ calls[c].pc = "idle" /\ calls'[c].pc # "idle"
        /\ calls'[c].op \in {"setRole", "setStatus", "pending"}
        /\ calls'[c].tokRole \in Roles
        /\ calls'[c].code # 401)
       => LET allowed == IF calls'[c].op = "pending"
                         THEN calls'[c].tokRole \in {"caretaker", "warden", "admin"}
                         ELSE calls'[c].tokRole = "admin"
          IN
          IF allowed THEN calls'[c].pc = "authed"
          ELSE calls'[c].pc = "done" /\ calls'[c].code = 403]_vars

\* C18: a sign-in whose verified email does not end with @nitgoa.ac.in is
\* refused (403), creates or updates no user and issues no token; every stored
\* user's email ends with @nitgoa.ac.in.
C18_InstitutionOnly ==
  [][/\ \A c \in Slots :
          (/\ calls[c].pc = "idle" /\ calls'[c].op = "signin"
           /\ calls'[c].email # <<>>
           /\ ~endsWith(calls'[c].email, <<"@", Institution>>))
          => /\ calls'[c].pc = "done" /\ calls'[c].code = 403
             /\ calls'[c].token = Token(NoUser, "none")
             /\ users' = users /\ tokens' = tokens
     /\ \A u \in DOMAIN users' : endsWith(users'[u].email, <<"@", Institution>>)]_vars

C18_Witness ==
  \E c \in Slots :
    /\ calls[c].pc = "done" /\ calls[c].op = "signin" /\ calls[c].code = 403
    /\ calls[c].email = <<"n1", "@", "evil-", Institution>>
    /\ \A u \in DOMAIN users : users[u].email # calls[c].email

\* C19: a sign-in verified for an allowed email that has no user record
\* creates one record for it with role student and returns a token for it; a
\* sign-in for an email that has a record creates none and returns a token
\* for that user.
C19_SignInCreates ==
  [][\A c \in Slots :
       (/\ calls[c].pc = "idle" /\ calls'[c].op = "signin"
        /\ calls'[c].email # <<>>
        /\ endsWith(calls'[c].email, <<"@", Institution>>))
       => LET email == calls'[c].email
              before == {u \in DOMAIN users : users[u].email = email}
              after == {u \in DOMAIN users' : users'[u].email = email}
          IN
          /\ calls'[c].pc = "done" /\ calls'[c].code = 200
          /\ Cardinality(after) = 1
          /\ (before = {} => \A u \in after : users'[u].role = "student")
          /\ (before # {} => after = before /\ DOMAIN users' = DOMAIN users)
          /\ calls'[c].token.userId \in after
          /\ calls'[c].token \in tokens']_vars

\* C20: every stored user has studentId and a year in 1..4 populated if and
\* only if the user's role is student.
C20_StudentFieldsIff ==
  \A u \in DOMAIN users :
    (users[u].role = "student")
      <=> (Truthy(users[u].studentId) /\ users[u].year \in 1..4)

\* C21: a stored request has approvedBy and approvedAt set exactly when its
\* status is approved or rejected, and approvedBy is the actor whose approve or
\* reject call moved it out of pending and was answered with success; it stays
\* that actor afterwards, also when approve/reject calls interleave.
C21_ApprovedByIsDecider ==
  [][\A id \in DOMAIN leaves' :
       /\ (leaves'[id].status \in Decided)
            <=> (leaves'[id].approvedBy # NoUser /\ leaves'[id].approvedAt # Undefined)
       /\ (id \in DOMAIN leaves /\ leaves[id].status = "pending"
             /\ leaves'[id].status \in Decided)
          => \E c \in Slots :
               /\ calls[c].pc = "loaded" /\ calls[c].op \in {"approve", "reject"}
               /\ calls[c].id = id
               /\ calls'[c].pc = "done" /\ calls'[c].code = 200
               /\ leaves'[id].approvedBy = calls[c].actor
       /\ (id \in DOMAIN leaves /\ leaves[id].status \in Decided)
          => /\ leaves'[id].approvedBy = leaves[id].approvedBy
             /\ leaves'[id].approvedAt = leaves[id].approvedAt]_vars

\* C22: on the operations that check who owns a request or a record (view
\* and cancel of a request, fetch of a user, search of users) a caller with role
\* admin is never answered Forbidden, whoever owns the target.
C22_AdminBypassesOwnership ==
  [][\A c \in Slots :
       (/\ calls'[c].op \in {"view", "cancel", "getUser", "search"}
        /\ calls'[c].role = "admin"
        /\ calls[c].pc # "done" /\ calls'[c].pc = "done")
       => calls'[c].code # 403]_vars

\* C24: fetch of a user by a caller who is not an admin, for the id of another
\* user, is answered 403 with no field of the record, whatever the body holds;
\* a search by a caller who is not an admin returns no record of another user.
C24_OthersRecordsRefused ==
  [][\A c \in Slots :
       /\ (/\ calls[c].pc = "authed" /\ calls[c].op = "getUser"
           /\ calls'[c].pc = "done"
           /\ calls[c].role # "admin"
           /\ calls'[c].target \in DOMAIN users
           /\ calls'[c].target # calls[c].actor)
          => calls'[c].code = 403 /\ calls'[c].docs = <<>>
       /\ (/\ calls[c].pc = "authed" /\ calls[c].op = "search"
           /\ calls'[c].pc = "done"
           /\ calls[c].role # "admin")
          => DOMAIN calls'[c].docs \subseteq {calls[c].actor}]_vars

\* C23: for toDate >= fromDate, at every time of day, the duration of a
\* request is the number of calendar days from the day of fromDate to the day
\* of toDate, both counted (the same day is 1); the stats' totalDays is the sum
\* of that number over the caller's approved requests.
CalendarDays(doc) == (doc.toDate \div InstantsPerDay) - (doc.fromDate \div InstantsPerDay) + 1

RECURSIVE SumCalendarDays(_)
SumCalendarDays(ids) ==
  IF ids = {} THEN 0
  ELSE LET id == CHOOSE i \in ids : TRUE IN
       CalendarDays(leaves[id]) + SumCalendarDays(ids \ {id})

C23_DurationIsCalendarDays ==
  [][\A c \in Slots :
       /\ (calls[c].pc = "authed" /\ calls[c].op = "mine" /\ calls'[c].pc = "done")
          => \A id \in DOMAIN calls'[c].docs :
               calls'[c].days[id] = CalendarDays(leaves[id])
       /\ (/\ calls[c].pc = "authed" /\ calls[c].op = "stats" /\ calls'[c].pc = "done"
           /\ calls[c].role = "student")
          => calls'[c].stats.totalDays =
               SumCalendarDays({id \in DOMAIN leaves :
                                  /\ leaves[id].student = calls[c].actor
                                  /\ leaves[id].status = "approved"})]_vars

\* C25: approve or reject of a pending request by an approver with valid
\* remarks succeeds at every current time, also after the request's fromDate
\* has passed; an approve or reject call fails only as Forbidden, NotFound,
\* not-pending or invalid input, never with an internal error.
C25_OverdueCanBeDecided ==
  [][\A c \in Slots :
       /\ (/\ calls[c].pc = "loaded" /\ calls[c].op \in {"approve", "reject"}
           /\ calls'[c].pc = "done")
          => /\ calls'[c].code = 200
             /\ calls[c].id \in DOMAIN leaves'
             /\ leaves'[calls[c].id].status =
                  (IF calls[c].op = "approve" THEN "approved" ELSE "rejected")
       /\ (calls'[c].op \in {"approve", "reject"} /\ calls'[c].pc = "done")
          => calls'[c].code \in {200, 400, 401, 403, 404}]_vars

\* C26: the directory starts with an active admin, and after any sequence or
\* interleaving of the admin's role and status operations (two admins acting on
\* each other at once included) and of profile updates, some user is still an
\* active admin.
C26_SomeActiveAdmin ==
  \E u \in DOMAIN users : users[u].role = "admin" /\ users[u].isActive

\* C27: the approvedBy of every decided request differs from the student who
\* owns it: no sequence of submits, role changes by the admin and approve or
\* reject calls lets a user decide their own request.
C27_NoSelfDecision ==
  \A id \in DOMAIN leaves :
    leaves[id].status \in Decided => leaves[id].approvedBy # leaves[id].student

\* C28: while a user's isActive flag is false, every request that carries a
\* token of that user (one issued before the deactivation or one issued by a
\* sign-in after it) is answered 401 and changes no leave request and no user
\* record; a refused request does nothing more than return.
C28_InactiveIsRefused ==
  [][\A c \in Slots :
       /\ (/\ calls[c].pc = "idle" /\ calls'[c].pc # "idle"
           /\ calls'[c].op # "signin"
           /\ calls'[c].actor \in DOMAIN users
           /\ ~users[calls'[c].actor].isActive)
          => /\ calls'[c].pc = "done" /\ calls'[c].code = 401
             /\ leaves' = leaves /\ users' = users
       /\ (calls[c].pc = "done" /\ calls[c].code = 401)
          => leaves' = leaves /\ users' = users]_vars

C28_Witness ==
  \E c \in Slots, id \in DOMAIN leaves :
    /\ calls[c].pc = "done" /\ calls[c].op = "approve" /\ calls[c].code = 401
    /\ calls[c].actor = "c1" /\ ~users["c1"].isActive
    /\ leaves[id].status = "pending"

\* C29: when the client's login is called with a credential the identity
\* provider accepts, for the email of an existing active user of the
\* institution, the backend accepts the request the client sends, and login
\* stores the returned token under lms_token, sets the user and returns success.
C29_LoginSucceeds ==
  [][\A c \in Slots :
       LET credential == client.login.body.credential
           found == {u \in DOMAIN users : users[u].email = credential.email}
           accepted == /\ credential.kind = "valid"
                       /\ emailAllowed(credential.email)
                       /\ \E u \in found : users[u].isActive
       IN
       /\ (/\ client.login.pc = "sent" /\ accepted
           /\ calls[c].pc = "idle" /\ calls'[c].op = "signin")
          => calls'[c].code = 200 /\ calls'[c].actor \in found
       /\ (/\ client.login.pc = "sent" /\ accepted
           /\ client'.login.pc = "idle")
          => /\ client'.result = "success"
             /\ client'.token \in tokens /\ client'.token.userId \in found
             /\ client'.user \in found]_vars

\* C30: whenever no checkAuthStatus and no login is in flight, the provider's
\* user is set only if a token is stored under lms_token; and if logout was the
\* last call to start, the token is absent and the user is null.
C30_UserOnlyWithToken ==
  (client.check.pc # "sent" /\ client.login.pc # "sent")
    => /\ (client.user # NoUser => client.token # NoToken)
       /\ (client.last = "logout" => client.token = NoToken /\ client.user = NoUser)

TypeOK ==
  /\ now \in 0..MaxTime
  /\ \A t \in tokens : t.userId \in DOMAIN users /\ t.role \in Roles
  /\ \A u \in DOMAIN users : users[u].role \in Roles /\ users[u].isActive \in BOOLEAN
  /\ nextId \in 1..(MaxLeaves + 1)
  /\ DOMAIN leaves \subseteq LeaveIds
====
